---- MODULE Spec2Model ----
(***************************************************************************)
(* A model of the token lifecycle and the request dispatcher of the Brale  *)
(* command-line client (src/brale/auth.py, src/brale/config.py).           *)
(*                                                                         *)
(* The credential store is BraleConfig._credentials, a dictionary: it is   *)
(* modelled as a function whose DOMAIN is the set of keys present.  The    *)
(* token endpoint and the resource server are the environment: each HTTP   *)
(* exchange draws its outcome from a small set.  A handler is one atomic   *)
(* action; the clock (int(time.time())) is read as `now` and advances      *)
(* between handler calls (Tick).  Writes of the credentials file succeed.  *)
(*                                                                         *)
(* Seven specifications share the variables:                               *)
(*   Spec        the token manager and the dispatcher (auth.py, config.py) *)
(*   SpecSelect  the address selection loops of cli.py and of the example  *)
(*               scripts, on every address list up to MaxAddrs             *)
(*   SpecCli     the commands `transfers create` and `automations create`  *)
(*               of cli.py, step by step, on top of the dispatcher; the    *)
(*               clock stands still during the runs of the commands        *)
(*   SpecSave    Spec, and authenticate() with a credentials save that     *)
(*               fails part-way                                            *)
(*   SpecThreads two threads in get_access_token() on one cache, each      *)
(*               read and write of the cache a step of its own             *)
(*   SpecFunctions  credential resolution, to_dict() and the account of a  *)
(*               command, on sampled stores, environments and options      *)
(*   SpecBody    the request body of a transfer, for sampled inputs        *)
(***************************************************************************)
EXTENDS Integers, Sequences, FiniteSets, TLC

\* ------------------------------------------------------------------ bounds
MaxTime == 2
MaxExpiresIn == 1

\* ------------------------------------------------------------ constants
\* token_data.get("expires_in", 3600)
DefaultExpiresIn == 3600

\* Python's None for an Optional[str]
None == "<None>"
\* Python's None for an Optional token
NoToken == None

\* variant: only None is falsy
Truthy_notNone(s) == s # None

\* truthiness of an Optional[str]: None and "" are falsy
Truthy(s) == s # None /\ s # ""

\* the access tokens the token endpoint hands out
Tokens == {"t1", "t2"}
\* the clock at construction
StartTime == 1
\* the expires_in the token endpoint may send: negative (down to minus the
\* clock, so that now + expires_in = 0 happens), zero, positive
ExpiresInValues == (0 - MaxTime)..MaxExpiresIn

\* os.environ: (BRALE_CLIENT_ID, BRALE_SECRET)
EnvChoices == { <<None, None>>, <<"idE", "secE">>, <<"", "secE">> }
\* the (client_id, client_secret) a caller passes to authenticate()
ArgChoices == { <<None, None>>, <<"idA", "secA">>, <<"idA", None>> }

\* what the token endpoint may answer to one POST
TokenOutcomes ==
       { [kind |-> "ok", access_token |-> tk, has_expires_in |-> TRUE, expires_in |-> e] :
            tk \in Tokens, e \in ExpiresInValues }
  \cup { [kind |-> "ok", access_token |-> tk, has_expires_in |-> FALSE, expires_in |-> 0] :
            tk \in Tokens }
  \cup { [kind |-> k, access_token |-> NoToken, has_expires_in |-> FALSE, expires_in |-> 0] :
            k \in {"non200", "neterr", "malformed"} }

\* what a resource request may end with: a response, or a transport exception
ResourceOutcomes ==
       { [kind |-> "response", status |-> s] : s \in {200, 401, 404, 500} }
  \cup { [kind |-> "exception", status |-> 0] }

NoResponse == [n |-> 0, status |-> 0]

VARIABLES
  credentials,      \* BraleConfig._credentials
  environ,          \* (BRALE_CLIENT_ID, BRALE_SECRET)
  session_auth,     \* the bearer in BraleAPIClient.session.headers
  now,              \* int(time.time())
  last,             \* history: the handler call in progress
  supplied,         \* history: the Credential of the last successful explicit login
  issued,           \* history: now + expires_in of the last token the endpoint issued
  addresses,        \* the resource server's address list of the account
  default_account,  \* BraleConfig._config['default_account']
  uuid_count,       \* the number of uuid.uuid4() values drawn so far
  keys_sent,        \* history: the Idempotency-Key of each invocation that posted
  cmd               \* the CLI command in progress

cliVars == <<addresses, default_account, uuid_count, keys_sent, cmd>>

vars == <<credentials, environ, session_auth, now, last, supplied, issued,
          addresses, default_account, uuid_count, keys_sent, cmd>>

\* ------------------------------------------------------- BraleConfig
\* self._credentials[key] = value; self._save_credentials()
set_credential(c, key, value) ==
  [k \in DOMAIN c \cup {key} |-> IF k = key THEN value ELSE c[k]]

\* self._credentials.get(key, None), for the string-valued keys
get_credential(c, key) == IF key \in DOMAIN c THEN c[key] ELSE None

\* variant: the stored value wins over the environment
get_client_credentials_stored_first(c, env) ==
  << IF Truthy(get_credential(c, "client_id"))
       THEN get_credential(c, "client_id") ELSE env[1],
     IF Truthy(get_credential(c, "client_secret"))
       THEN get_credential(c, "client_secret") ELSE env[2] >>

\* os.getenv(X) or self.get_credential(x), per field
get_client_credentials(c, env) ==
  << IF Truthy(env[1]) THEN env[1] ELSE get_credential(c, "client_id"),
     IF Truthy(env[2]) THEN env[2] ELSE get_credential(c, "client_secret") >>

config_get_access_token(c) ==
  IF "access_token" \in DOMAIN c THEN c["access_token"] ELSE NoToken

\* `if expires_at:` an int is truthy unless it is 0
ExpiresAtTruthy(expires_at) == expires_at # 0

set_access_token(c, token, expires_at) ==
  LET c1 == set_credential(c, "access_token", token)
  IN IF ExpiresAtTruthy(expires_at)
       THEN set_credential(c1, "token_expires_at", expires_at)
       ELSE c1

clear_access_token(c) ==
  [k \in DOMAIN c \ {"access_token", "token_expires_at"} |-> c[k]]

\* ---------------------------------------------------------- BraleAuth
AuthResult(c, exc, posts) == [creds |-> c, exc |-> exc, posts |-> posts]

\* variant: a rejected exchange evicts the cached token
token_exchange_evicting(c, t, client_id, client_secret, o) ==
  LET post == [client_id |-> client_id, client_secret |-> client_secret,
               outcome |-> o]
  IN CASE o.kind = "neterr"    -> AuthResult(c, "AuthNetworkError", <<post>>)
       [] o.kind = "non200"    -> AuthResult(clear_access_token(c), "AuthFailed", <<post>>)
       [] o.kind = "malformed" -> AuthResult(c, "KeyError", <<post>>)
       [] OTHER ->
            LET expires_in == IF o.has_expires_in THEN o.expires_in
                              ELSE DefaultExpiresIn
                expires_at == t + expires_in
                c1 == set_access_token(c, o.access_token, expires_at)
                c2 == set_credential(c1, "client_id", client_id)
                c3 == set_credential(c2, "client_secret", client_secret)
            IN AuthResult(c3, "none", <<post>>)

\* variant: the status of the token response is not checked
token_exchange_unchecked(c, t, client_id, client_secret, o) ==
  LET post == [client_id |-> client_id, client_secret |-> client_secret,
               outcome |-> o]
  IN CASE o.kind = "neterr" -> AuthResult(c, "AuthNetworkError", <<post>>)
       [] o.kind \in {"non200", "malformed"} -> AuthResult(c, "KeyError", <<post>>)
       [] OTHER ->
            LET expires_in == IF o.has_expires_in THEN o.expires_in
                              ELSE DefaultExpiresIn
                expires_at == t + expires_in
                c1 == set_access_token(c, o.access_token, expires_at)
                c2 == set_credential(c1, "client_id", client_id)
                c3 == set_credential(c2, "client_secret", client_secret)
            IN AuthResult(c3, "none", <<post>>)

\* the part of authenticate() from the POST on, for one answer of the endpoint
token_exchange(c, t, client_id, client_secret, o) ==
  LET post == [client_id |-> client_id, client_secret |-> client_secret,
               outcome |-> o]
  IN CASE o.kind = "neterr"    -> AuthResult(c, "AuthNetworkError", <<post>>)
       [] o.kind = "non200"    -> AuthResult(c, "AuthFailed", <<post>>)
       [] o.kind = "malformed" -> AuthResult(c, "KeyError", <<post>>)
       [] OTHER ->
            LET expires_in == IF o.has_expires_in THEN o.expires_in
                              ELSE DefaultExpiresIn
                expires_at == t + expires_in
                c1 == set_access_token(c, o.access_token, expires_at)
                c2 == set_credential(c1, "client_id", client_id)
                c3 == set_credential(c2, "client_secret", client_secret)
            IN AuthResult(c3, "none", <<post>>)

authenticate(c, env, t, client_id, client_secret) ==
  LET fromConfig == ~Truthy(client_id) \/ ~Truthy(client_secret)
      pair == IF fromConfig THEN get_client_credentials(c, env)
              ELSE <<client_id, client_secret>>
  IN IF ~Truthy(pair[1]) \/ ~Truthy(pair[2])
       THEN { AuthResult(c, "ValueError", <<>>) }
       ELSE { token_exchange(c, t, pair[1], pair[2], o) : o \in TokenOutcomes }

\* variants of the expiry comparison: off by one at the boundary, and early
Expired_strict(t, expires_at) == t > expires_at
Expired_skewed(t, expires_at) == t + 1 >= expires_at

\* `int(time.time()) >= expires_at`
Expired(t, expires_at) == t >= expires_at

is_authenticated(c, t) ==
  IF config_get_access_token(c) = NoToken
    THEN [creds |-> c, val |-> FALSE]
    ELSE IF /\ "token_expires_at" \in DOMAIN c
            /\ ExpiresAtTruthy(c["token_expires_at"])
            /\ Expired(t, c["token_expires_at"])
           THEN [creds |-> clear_access_token(c), val |-> FALSE]
           ELSE [creds |-> c, val |-> TRUE]

TokenResult(c, exc, token, posts) ==
  [creds |-> c, exc |-> exc, token |-> token, posts |-> posts]

\* variant: the failure of authenticate() reaches the caller
RaiseAuthError(a) ==
  IF a.exc # "none"
    THEN TokenResult(a.creds, a.exc, NoToken, a.posts)
    ELSE TokenResult(a.creds, "none", config_get_access_token(a.creds), a.posts)

\* `except Exception: return None`
SwallowAuthError(a) ==
  IF a.exc # "none"
    THEN TokenResult(a.creds, "none", NoToken, a.posts)
    ELSE TokenResult(a.creds, "none", config_get_access_token(a.creds), a.posts)

get_access_token(c, env, t) ==
  LET ia == is_authenticated(c, t)
  IN IF ~ia.val
       THEN LET pair == get_client_credentials(ia.creds, env)
            IN IF Truthy(pair[1]) /\ Truthy(pair[2])
                 THEN { SwallowAuthError(a) :
                          a \in authenticate(ia.creds, env, t, pair[1], pair[2]) }
                 ELSE { TokenResult(ia.creds, "none", NoToken, <<>>) }
       ELSE { TokenResult(ia.creds, "none", config_get_access_token(ia.creds), <<>>) }

logout(c) == clear_access_token(c)

get_auth_headers(c, env, t) ==
  { IF g.token = NoToken
      THEN TokenResult(g.creds, "NotAuthenticated", NoToken, g.posts)
      ELSE g :
    g \in get_access_token(c, env, t) }

\* ----------------------------------------------------- BraleAPIClient
\* `session` is the bearer token in self.session.headers["Authorization"]
RequestResult(c, sess, exc, resp, posts, reqs) ==
  [creds |-> c, session |-> sess, exc |-> exc, resp |-> resp,
   posts |-> posts, reqs |-> reqs]

_ensure_authenticated(c, env, sess, t) ==
  LET ia == is_authenticated(c, t)
  IN IF ~ia.val
       THEN { RequestResult(ia.creds, sess, "NotAuthenticated", NoResponse, <<>>, <<>>) }
       ELSE { IF h.exc # "none"
                THEN RequestResult(h.creds, sess, h.exc, NoResponse, h.posts, <<>>)
                ELSE RequestResult(h.creds, h.token, "none", NoResponse, h.posts, <<>>) :
              h \in get_auth_headers(ia.creds, env, t) }

\* variant: every client error triggers the refresh
ShouldRefresh_any4xx(status) == status >= 400 /\ status < 500

\* `if response.status_code == 401:`
ShouldRefresh(status) == status = 401

\* variant: what was raised inside the try block reaches the caller
PropagateRefreshError(c, sess, first, posts, reqs) ==
  RequestResult(c, sess, "RefreshError", NoResponse, posts, reqs)

\* `except Exception: pass`, then `return response`: whatever was raised inside
\* the try block is dropped and the response held so far is returned
SwallowRefreshError(c, sess, first, posts, reqs) ==
  RequestResult(c, sess, "none", first, posts, reqs)

\* variant: the resend goes out with the bearer of the first attempt
Resend_stale(first, h, posts, reqs1) ==
  { LET reqs == Append(reqs1, [bearer |-> reqs1[1].bearer, outcome |-> r2])
    IN IF r2.kind = "exception"
         THEN SwallowRefreshError(h.creds, h.token, first, posts, reqs)
         ELSE RequestResult(h.creds, h.token, "none",
                            [n |-> 2, status |-> r2.status], posts, reqs) :
    r2 \in ResourceOutcomes }

\* `response = self.session.request(method, url, **kwargs)`, inside the try block
Resend(first, h, posts, reqs1) ==
  { LET reqs == Append(reqs1, [bearer |-> h.token, outcome |-> r2])
    IN IF r2.kind = "exception"
         THEN SwallowRefreshError(h.creds, h.token, first, posts, reqs)
         ELSE RequestResult(h.creds, h.token, "none",
                            [n |-> 2, status |-> r2.status], posts, reqs) :
    r2 \in ResourceOutcomes }

\* the body of `if response.status_code == 401:`
RefreshAndRetry(e, env, t, first, reqs1) ==
  LET pair == get_client_credentials(e.creds, env)
  IN IF Truthy(pair[1]) /\ Truthy(pair[2])
       THEN UNION {
              IF a.exc # "none"
                THEN { SwallowRefreshError(a.creds, e.session, first,
                                           e.posts \o a.posts, reqs1) }
                ELSE UNION {
                       IF h.exc # "none"
                         THEN { SwallowRefreshError(h.creds, e.session, first,
                                                    e.posts \o a.posts \o h.posts, reqs1) }
                         ELSE Resend(first, h, e.posts \o a.posts \o h.posts, reqs1) :
                       h \in get_auth_headers(a.creds, env, t) } :
              a \in authenticate(e.creds, env, t, pair[1], pair[2]) }
       ELSE { RequestResult(e.creds, e.session, "none", first, e.posts, reqs1) }

request(c, env, sess, t) ==
  UNION {
    IF e.exc # "none"
      THEN { e }
      ELSE UNION {
             LET reqs1 == <<[bearer |-> e.session, outcome |-> r1]>>
                 first == [n |-> 1, status |-> r1.status]
             IN IF r1.kind = "exception"
                  THEN { RequestResult(e.creds, e.session, "RequestException",
                                       NoResponse, e.posts, reqs1) }
                  ELSE IF ShouldRefresh(r1.status)
                         THEN RefreshAndRetry(e, env, t, first, reqs1)
                         ELSE { RequestResult(e.creds, e.session, "none", first,
                                              e.posts, reqs1) } :
             r1 \in ResourceOutcomes } :
    e \in _ensure_authenticated(c, env, sess, t) }

\* ------------------------------------------------------------ the machine
\* `last` is a history variable: what the handler call in progress did (its
\* arguments, the store before it, what it returned or raised, the HTTP
\* exchanges it made).  It is "idle" between calls: Return hands the result to
\* the caller and forgets it.  The program state is credentials, environ,
\* session_auth and now.
Observed(op, args, exc, ok, token, resp, posts, reqs) ==
  [op |-> op, time |-> now, pre |-> credentials, pre_issued |-> issued,
   args |-> args, exc |-> exc,
   ok |-> ok, token |-> token, resp |-> resp, posts |-> posts, reqs |-> reqs]

NoArgs == <<None, None>>

Idle ==
  [op |-> "idle", time |-> StartTime, pre |-> << >>, pre_issued |-> 0,
   args |-> NoArgs,
   exc |-> "none", ok |-> FALSE, token |-> NoToken, resp |-> NoResponse,
   posts |-> << >>, reqs |-> << >>]

\* the expires_in a token response carries, 3600 when the field is absent
ExpiresInOf(o) == IF o.has_expires_in THEN o.expires_in ELSE DefaultExpiresIn

\* the tokens the endpoint issued in a call, in order
IssuedTokens(posts) == SelectSeq(posts, LAMBDA p : p.outcome.kind = "ok")

\* now + expires_in of the last token issued, `old` when the call got none
IssuedExpiry(posts, t, old) ==
  LET ok == IssuedTokens(posts)
  IN IF ok = << >> THEN old ELSE t + ExpiresInOf(ok[Len(ok)].outcome)

\* no CLI command in progress
NoCmd == [pc |-> "none"]

\* a fresh installation: no credentials file
InitAuth ==
  /\ credentials = << >>
  /\ environ \in EnvChoices
  /\ session_auth = NoToken
  /\ now = StartTime
  /\ last = Idle
  /\ supplied = NoArgs
  /\ issued = 0

Init ==
  /\ InitAuth
  /\ addresses = << >>
  /\ default_account = None
  /\ uuid_count = 0
  /\ keys_sent = << >>
  /\ cmd = NoCmd

Authenticate ==
  /\ last = Idle
  /\ \E args \in ArgChoices :
       \E a \in authenticate(credentials, environ, now, args[1], args[2]) :
         /\ credentials' = a.creds
         /\ last' = Observed("authenticate", args, a.exc, a.exc = "none", NoToken,
                             NoResponse, a.posts, << >>)
         /\ supplied' = IF a.exc = "none" /\ Truthy(args[1]) /\ Truthy(args[2])
                           THEN args ELSE supplied
         /\ issued' = IssuedExpiry(a.posts, now, issued)
  /\ UNCHANGED <<environ, session_auth, now>>
  /\ UNCHANGED cliVars

IsAuthenticated ==
  /\ last = Idle
  /\ LET ia == is_authenticated(credentials, now)
     IN /\ credentials' = ia.creds
        /\ last' = Observed("is_authenticated", NoArgs, "none", ia.val, NoToken,
                            NoResponse, << >>, << >>)
  /\ UNCHANGED <<environ, session_auth, now, supplied, issued>>
  /\ UNCHANGED cliVars

GetAccessToken ==
  /\ last = Idle
  /\ \E g \in get_access_token(credentials, environ, now) :
       /\ credentials' = g.creds
       /\ last' = Observed("get_access_token", NoArgs, g.exc, FALSE, g.token,
                           NoResponse, g.posts, << >>)
       /\ issued' = IssuedExpiry(g.posts, now, issued)
  /\ UNCHANGED <<environ, session_auth, now, supplied>>
  /\ UNCHANGED cliVars

Logout ==
  /\ last = Idle
  /\ credentials' = logout(credentials)
  /\ last' = Observed("logout", NoArgs, "none", FALSE, NoToken, NoResponse,
                      << >>, << >>)
  /\ UNCHANGED <<environ, session_auth, now, supplied, issued>>
  /\ UNCHANGED cliVars

Request ==
  /\ last = Idle
  /\ \E r \in request(credentials, environ, session_auth, now) :
       /\ credentials' = r.creds
       /\ session_auth' = r.session
       /\ last' = Observed("request", NoArgs, r.exc, FALSE, NoToken, r.resp,
                           r.posts, r.reqs)
       /\ issued' = IssuedExpiry(r.posts, now, issued)
  /\ UNCHANGED <<environ, now, supplied>>
  /\ UNCHANGED cliVars

\* the call is over
Return ==
  /\ last # Idle
  /\ last' = Idle
  /\ UNCHANGED <<credentials, environ, session_auth, now, supplied, issued>>
  /\ UNCHANGED cliVars

\* the clock advances between calls
Tick ==
  /\ last = Idle
  /\ now < MaxTime
  /\ now' = now + 1
  /\ UNCHANGED <<credentials, environ, session_auth, last, supplied, issued>>
  /\ UNCHANGED cliVars

Next ==
  \/ Authenticate
  \/ IsAuthenticated
  \/ GetAccessToken
  \/ Logout
  \/ Request
  \/ Return
  \/ Tick

Spec == Init /\ [][Next]_vars

\* ------------------------------------------- failing credential saves
\* the set_credential calls of a successful exchange, in the order
\* authenticate() makes them
store_writes(token, expires_at, client_id, client_secret) ==
  <<[key |-> "access_token", value |-> token]>>
  \o (IF ExpiresAtTruthy(expires_at)
        THEN <<[key |-> "token_expires_at", value |-> expires_at]>>
        ELSE << >>)
  \o <<[key |-> "client_id", value |-> client_id],
       [key |-> "client_secret", value |-> client_secret]>>

\* self._credentials after the first n of the writes: set_credential assigns
\* the key and then saves
RECURSIVE written(_, _, _)
written(c, writes, n) ==
  IF n = 0 THEN c
  ELSE set_credential(written(c, writes, n - 1), writes[n].key, writes[n].value)

\* authenticate() answered with a token when the n-th _save_credentials
\* raises: the first n writes are in memory, RuntimeError leaves the call
authenticate_save_failing(c, env, t, client_id, client_secret) ==
  LET fromConfig == ~Truthy(client_id) \/ ~Truthy(client_secret)
      pair == IF fromConfig THEN get_client_credentials(c, env)
              ELSE <<client_id, client_secret>>
  IN IF ~Truthy(pair[1]) \/ ~Truthy(pair[2])
       THEN {}
       ELSE UNION {
         LET writes == store_writes(o.access_token, t + ExpiresInOf(o),
                                    pair[1], pair[2])
             post == [client_id |-> pair[1], client_secret |-> pair[2],
                      outcome |-> o]
         IN { AuthResult(written(c, writes, n), "SaveFailed", <<post>>) :
              n \in 1..Len(writes) } :
         o \in { x \in TokenOutcomes : x.kind = "ok" } }

AuthenticateSaveFails ==
  /\ last = Idle
  /\ \E args \in ArgChoices :
       \E a \in authenticate_save_failing(credentials, environ, now,
                                          args[1], args[2]) :
         /\ credentials' = a.creds
         /\ last' = Observed("authenticate", args, a.exc, FALSE, NoToken,
                             NoResponse, a.posts, << >>)
         /\ issued' = IssuedExpiry(a.posts, now, issued)
  /\ UNCHANGED <<environ, session_auth, now, supplied>>
  /\ UNCHANGED cliVars

\* the operations of Spec, and authenticate() with a save that fails
NextSave ==
  \/ Next
  \/ AuthenticateSaveFails

\* a fresh installation with no credential in the environment
InitSave == Init /\ environ = <<None, None>>

SpecSave == InitSave /\ [][NextSave]_vars

\* ------------------------------------------------- address selection
\* the longest address list the selection is checked on
MaxAddrs == 3

Range(seq) == { seq[i] : i \in 1..Len(seq) }

\* the transfer types (networks) an address can list
Networks == {"base", "solana"}

\* the transfer_types lists: no network, one, or both in either order
TransferTypeLists ==
  {<< >>} \cup { <<n>> : n \in Networks }
          \cup { p \in Networks \X Networks : p[1] # p[2] }

AddressStatuses == {"active", "pending"}

\* the address at position i of the server's list; its id is its position
AddressesAt(i) ==
  [id : {i}, status : AddressStatuses, transfer_types : TransferTypeLists]

\* every address list of length n
AddressListsOfLen(n) ==
  { a \in [1..n -> UNION { AddressesAt(i) : i \in 1..n }] :
      \A i \in 1..n : a[i].id = i }

AddressLists == UNION { AddressListsOfLen(n) : n \in 0..MaxAddrs }

\* the values of --network: absent, empty, or a network name
NetworkArgs == {None, ""} \cup Networks

\* `compatible_address = None`, `base_address_id = None`
NoAddress == [id |-> 0, status |-> "none", transfer_types |-> << >>]
NoAddressId == 0

\* `addr['status'] == 'active'`
IsActive(addr) == addr.status = "active"

\* variant: a requested network matches any address
Matches_any(network, transfer_types) == Truthy(network)

\* `network and network in transfer_types`
Matches(network, transfer_types) ==
  Truthy(network) /\ network \in Range(transfer_types)

\* variant: only an address with a single network is auto-selected
AutoSelects_single(network, transfer_types) ==
  ~Truthy(network) /\ Len(transfer_types) = 1

\* `not network and transfer_types`
AutoSelects(network, transfer_types) ==
  ~Truthy(network) /\ transfer_types # << >>

\* the selection loop of `transfers create` and of `automations create`, from
\* position i on: the selected address and the effective network
RECURSIVE select_compatible_address(_, _, _)
select_compatible_address(addrs, network, i) ==
  IF i > Len(addrs)
    THEN [address |-> NoAddress, network |-> network]
    ELSE LET addr == addrs[i]
             transfer_types == addr.transfer_types
         IN IF IsActive(addr) /\ Matches(network, transfer_types)
              THEN [address |-> addr, network |-> network]
              ELSE IF IsActive(addr) /\ AutoSelects(network, transfer_types)
                     THEN [address |-> addr, network |-> transfer_types[1]]
                     ELSE select_compatible_address(addrs, network, i + 1)

\* variant: the networks of every address, active or not
available_networks_all(addrs) ==
  UNION { Range(addrs[i].transfer_types) : i \in 1..Len(addrs) }

\* `set(available_networks)`: the networks of the active addresses
available_networks(addrs) ==
  UNION { Range(addrs[i].transfer_types) :
            i \in { j \in 1..Len(addrs) : IsActive(addrs[j]) } }

\* `addr['status'] == 'active' and 'base' in addr['transfer_types']`
SupportsBase(addr) == addr.status = "active" /\ "base" \in Range(addr.transfer_types)

\* the loop of transfer_client.py from position i on: it has no break, so
\* every eligible address overwrites base_address_id
RECURSIVE transfer_client_base_address(_, _, _)
transfer_client_base_address(addrs, i, base_address_id) ==
  IF i > Len(addrs)
    THEN base_address_id
    ELSE transfer_client_base_address(addrs, i + 1,
           IF SupportsBase(addrs[i]) THEN addrs[i].id ELSE base_address_id)

\* the loop of automation_client.py from position i on: it breaks at the
\* first eligible address
RECURSIVE automation_client_base_address(_, _)
automation_client_base_address(addrs, i) ==
  IF i > Len(addrs)
    THEN NoAddressId
    ELSE IF SupportsBase(addrs[i])
           THEN addrs[i].id
           ELSE automation_client_base_address(addrs, i + 1)

\* the selection has run: what it was asked and what it produced
Selected(op, requested, address, network, available) ==
  [pc |-> "selected", op |-> op, requested |-> requested, address |-> address,
   network |-> network, available |-> available]

authVars == <<credentials, environ, session_auth, now, last, supplied, issued>>

InitSelect ==
  /\ InitAuth
  /\ addresses \in AddressLists
  /\ default_account = None
  /\ uuid_count = 0
  /\ keys_sent = << >>
  /\ cmd = NoCmd

\* the selection of the create commands, for one value of --network
CliSelect ==
  /\ cmd = NoCmd
  /\ \E network \in NetworkArgs :
       LET r == select_compatible_address(addresses, network, 1)
       IN cmd' = Selected("cli", network, r.address, r.network,
                          IF r.address = NoAddress
                            THEN available_networks(addresses) ELSE {})
  /\ UNCHANGED <<authVars, addresses, default_account, uuid_count, keys_sent>>

TransferClientSelect ==
  /\ cmd = NoCmd
  /\ cmd' = Selected("transfer_client", "base",
                     transfer_client_base_address(addresses, 1, NoAddressId),
                     "base", {})
  /\ UNCHANGED <<authVars, addresses, default_account, uuid_count, keys_sent>>

AutomationClientSelect ==
  /\ cmd = NoCmd
  /\ cmd' = Selected("automation_client", "base",
                     automation_client_base_address(addresses, 1), "base", {})
  /\ UNCHANGED <<authVars, addresses, default_account, uuid_count, keys_sent>>

\* the command or script is over
SelectDone ==
  /\ cmd.pc = "selected"
  /\ cmd' = NoCmd
  /\ UNCHANGED <<authVars, addresses, default_account, uuid_count, keys_sent>>

NextSelect ==
  \/ CliSelect
  \/ TransferClientSelect
  \/ AutomationClientSelect
  \/ SelectDone

SpecSelect == InitSelect /\ [][NextSelect]_vars

\* ------------------------------------- transfers create, automations create
\* the number of invocations that reach their POST
MaxCommands == 2

\* the two create commands
CommandKinds == {"transfers", "automations"}

\* the values of --account and of the configured default account
AccountArgs == {None, "acctA"}
DefaultAccounts == {None, "acctD"}

\* the address lists the server holds in the runs of the commands
ServerAddressLists ==
  { << >>,
    << [id |-> 1, status |-> "pending", transfer_types |-> <<"solana">>],
       [id |-> 2, status |-> "active", transfer_types |-> << >>],
       [id |-> 3, status |-> "active", transfer_types |-> <<"base">>],
       [id |-> 4, status |-> "active", transfer_types |-> <<"base", "solana">>] >> }

\* the values of --network in the runs of the commands
CommandNetworks == {None, "base", "solana"}

\* a request sent without an Idempotency-Key header, without a body
NoKey == 0
NoJson == [resource |-> "none"]

\* `account or brale_config.get_default_account()`
account_or_default(account, default) ==
  IF Truthy(account) THEN account ELSE default

\* variant: the status of the address fetch is not checked
FetchFailed_never(status) == FALSE

\* `addresses_response.status_code != 200`
FetchFailed(status) == status # 200

\* `transfer_response.status_code not in [200, 201]`
CreateFailed(status) == status \notin {200, 201}

\* transfer_data / automation_data: the fields that depend on the selection
create_data(kind, compatible_address, network) ==
  [resource |-> kind,
   destination |-> [address_id |-> compatible_address.id,
                    transfer_type |-> network]]

\* variant: the same key every time
uuid4_fixed(count) == 1

\* `str(uuid.uuid4())`: a value never drawn before
uuid4(count) == count + 1

\* `self.session.request(method, url, **kwargs)`: every send of one request()
\* call goes out with the method, url and kwargs of that call
session_requests(reqs, method, endpoint, key, json) ==
  [i \in 1..Len(reqs) |->
     [method |-> method, endpoint |-> endpoint, bearer |-> reqs[i].bearer,
      outcome |-> reqs[i].outcome, idempotency_key |-> key, json |-> json]]

\* the command in progress: its options, what its address fetch returned
\* (fetched: the number of GETs sent and the status of the response, 0 when
\* there is none), what it selected, and the POSTs it has sent
Command(pc, kind, account_id, requested, fetched, address, network, json) ==
  [pc |-> pc, kind |-> kind, account_id |-> account_id, requested |-> requested,
   fetched |-> fetched, address |-> address, network |-> network,
   key |-> NoKey, json |-> json, sends |-> << >>, status |-> 0]

\* api_client.get / api_client.post as the command sees them: the outcomes of
\* request(), with the expiry of the token a refresh obtained
api_client_request(c, env, sess, t, old_issued) ==
  { [creds |-> r.creds, session |-> r.session, exc |-> r.exc, resp |-> r.resp,
     reqs |-> r.reqs, issued |-> IssuedExpiry(r.posts, t, old_issued)] :
    r \in request(c, env, sess, t) }

\* the command after its address fetch: aborted, or ready to post
after_fetch(kind, account_id, network, r) ==
  LET fetched == [gets |-> Len(r.reqs), status |-> r.resp.status]
      sel == select_compatible_address(addresses, network, 1)
  IN IF r.exc # "none" \/ FetchFailed(r.resp.status) \/ sel.address = NoAddress
       THEN Command("aborted", kind, account_id, network, fetched, NoAddress,
                    network, NoJson)
       ELSE Command("ready", kind, account_id, network, fetched, sel.address,
                    sel.network, create_data(kind, sel.address, sel.network))

\* the store after `brale auth login` with idA:secA at StartTime, answered
\* with token t1 and the given expires_in
LoggedIn(expires_in) ==
  token_exchange(<< >>, StartTime, "idA", "secA",
                 [kind |-> "ok", access_token |-> "t1", has_expires_in |-> TRUE,
                  expires_in |-> expires_in]).creds

\* the command starts in a new process: never logged in, or logged in with a
\* token that is expired or still valid
InitCli ==
  /\ \/ credentials = << >> /\ issued = 0
     \/ \E expires_in \in {0, MaxExpiresIn} :
          /\ credentials = LoggedIn(expires_in)
          /\ issued = StartTime + expires_in
  /\ environ = <<None, None>>
  /\ session_auth = NoToken
  /\ now = StartTime
  /\ last = Idle
  /\ supplied = NoArgs
  /\ addresses \in ServerAddressLists
  /\ default_account \in DefaultAccounts
  /\ uuid_count = 0
  /\ keys_sent = << >>
  /\ cmd = NoCmd

\* the create command up to its POST: account, address fetch, selection
CreateFetch ==
  /\ cmd = NoCmd
  /\ uuid_count < MaxCommands
  /\ LET responses == api_client_request(credentials, environ, session_auth,
                                         now, issued)
     IN \E kind \in CommandKinds, account \in AccountArgs, network \in CommandNetworks :
       LET account_id == account_or_default(account, default_account)
       IN IF ~Truthy(account_id)
            THEN /\ cmd' = Command("aborted", kind, account_id, network,
                                   [gets |-> 0, status |-> 0], NoAddress,
                                   network, NoJson)
                 /\ UNCHANGED <<credentials, session_auth, issued>>
            ELSE \E r \in responses :
                   /\ credentials' = r.creds
                   /\ session_auth' = r.session
                   /\ issued' = r.issued
                   /\ cmd' = after_fetch(kind, account_id, network, r)
  /\ UNCHANGED <<environ, now, last, supplied>>
  /\ UNCHANGED <<addresses, default_account, uuid_count, keys_sent>>

\* the POST of the create command and the check of its answer
CreatePost ==
  /\ cmd.pc = "ready"
  /\ LET key == uuid4(uuid_count)
     IN /\ uuid_count' = uuid_count + 1
        /\ keys_sent' = Append(keys_sent, key)
        /\ \E r \in api_client_request(credentials, environ, session_auth,
                                       now, issued) :
             /\ credentials' = r.creds
             /\ session_auth' = r.session
             /\ issued' = r.issued
             /\ cmd' = [cmd EXCEPT
                  !.pc = IF r.exc # "none" \/ CreateFailed(r.resp.status)
                           THEN "aborted" ELSE "done",
                  !.key = key,
                  !.status = r.resp.status,
                  !.sends = session_requests(r.reqs, "POST",
                                             <<cmd.account_id, cmd.kind>>,
                                             key, cmd.json)]
  /\ UNCHANGED <<environ, now, last, supplied, addresses, default_account>>

\* the process exits
CreateExit ==
  /\ cmd.pc \in {"aborted", "done"}
  /\ cmd' = NoCmd
  /\ UNCHANGED <<authVars, addresses, default_account, uuid_count, keys_sent>>

NextCli ==
  \/ CreateFetch
  \/ CreatePost
  \/ CreateExit

SpecCli == InitCli /\ [][NextCli]_vars

\* -------------------------------------- concurrent get_access_token()
\* two threads of one process share auth and config; no lock is taken
Threads == {"A", "B"}

NoOutcome ==
  [kind |-> "none", access_token |-> NoToken, has_expires_in |-> FALSE,
   expires_in |-> 0]

\* a thread at the start of get_access_token(): its position and its locals
\* (invalid: is_authenticated() returned False; seen: the expired expiry it
\* read, 0 when it read none; posted: it sent the token POST)
NewThread ==
  [pc |-> "check", invalid |-> FALSE, seen |-> 0, pair |-> NoArgs,
   posted |-> FALSE, outcome |-> NoOutcome, result |-> NoToken]

\* variant: the cache is looked at again before the exchange
should_authenticate_rechecked(c, t, pair) ==
  Truthy(pair[1]) /\ Truthy(pair[2]) /\ ~is_authenticated(c, t).val

\* `if client_id and client_secret:` the cache and the clock are not consulted
should_authenticate(c, t, pair) == Truthy(pair[1]) /\ Truthy(pair[2])

\* both threads are about to call get_access_token(); the store holds the
\* Credential and a token that is expired, or one that is still valid
InitThreads ==
  /\ \E expires_in \in {0, MaxExpiresIn} :
       /\ credentials = LoggedIn(expires_in)
       /\ issued = StartTime + expires_in
  /\ environ = <<None, None>>
  /\ session_auth = NoToken
  /\ now = StartTime
  /\ last = Idle
  /\ supplied = NoArgs
  /\ addresses = << >>
  /\ default_account = None
  /\ uuid_count = 0
  /\ keys_sent = << >>
  /\ cmd = [pc |-> "threads", th |-> [t \in Threads |-> NewThread]]

\* thread t moves to the locals `next`
ThreadStep(t, next) == cmd' = [cmd EXCEPT !.th[t] = next]

threadFrame ==
  <<environ, session_auth, now, last, supplied, issued, addresses,
    default_account, uuid_count, keys_sent>>

\* is_authenticated(): `token = config.get_access_token(); if not token`
ThreadCheck(t) ==
  /\ cmd.th[t].pc = "check"
  /\ IF config_get_access_token(credentials) = NoToken
       THEN ThreadStep(t, [cmd.th[t] EXCEPT !.pc = "resolve", !.invalid = TRUE])
       ELSE ThreadStep(t, [cmd.th[t] EXCEPT !.pc = "expiry"])
  /\ UNCHANGED credentials
  /\ UNCHANGED threadFrame

\* is_authenticated(): `expires_at = ...; if expires_at and now >= expires_at`
ThreadExpiry(t) ==
  /\ cmd.th[t].pc = "expiry"
  /\ IF /\ "token_expires_at" \in DOMAIN credentials
        /\ ExpiresAtTruthy(credentials["token_expires_at"])
        /\ Expired(now, credentials["token_expires_at"])
       THEN ThreadStep(t, [cmd.th[t] EXCEPT !.pc = "evict",
                                            !.seen = credentials["token_expires_at"]])
       ELSE ThreadStep(t, [cmd.th[t] EXCEPT !.pc = "read"])
  /\ UNCHANGED credentials
  /\ UNCHANGED threadFrame

\* is_authenticated(): `config.clear_access_token(); return False`
ThreadEvict(t) ==
  /\ cmd.th[t].pc = "evict"
  /\ credentials' = clear_access_token(credentials)
  /\ ThreadStep(t, [cmd.th[t] EXCEPT !.pc = "resolve", !.invalid = TRUE])
  /\ UNCHANGED threadFrame

\* get_access_token(): get_client_credentials() and the test of the pair
ThreadResolve(t) ==
  /\ cmd.th[t].pc = "resolve"
  /\ LET pair == get_client_credentials(credentials, environ)
     IN IF should_authenticate(credentials, now, pair)
          THEN ThreadStep(t, [cmd.th[t] EXCEPT !.pc = "post", !.pair = pair])
          ELSE ThreadStep(t, [cmd.th[t] EXCEPT !.pc = "done", !.pair = pair])
  /\ UNCHANGED credentials
  /\ UNCHANGED threadFrame

\* authenticate(): the POST and its answer; a failure is swallowed by
\* get_access_token() and the call returns None
ThreadPost(t) ==
  /\ cmd.th[t].pc = "post"
  /\ \E o \in TokenOutcomes :
       ThreadStep(t, [cmd.th[t] EXCEPT
                        !.pc = IF o.kind = "ok" THEN "store_token" ELSE "done",
                        !.posted = TRUE, !.outcome = o])
  /\ UNCHANGED credentials
  /\ UNCHANGED threadFrame

\* set_access_token(): set_credential('access_token', token)
ThreadStoreToken(t) ==
  /\ cmd.th[t].pc = "store_token"
  /\ credentials' = set_credential(credentials, "access_token",
                                   cmd.th[t].outcome.access_token)
  /\ ThreadStep(t, [cmd.th[t] EXCEPT !.pc = "store_expiry"])
  /\ UNCHANGED threadFrame

\* set_access_token(): `if expires_at: set_credential('token_expires_at', ..)`
ThreadStoreExpiry(t) ==
  /\ cmd.th[t].pc = "store_expiry"
  /\ LET expires_at == now + ExpiresInOf(cmd.th[t].outcome)
     IN credentials' = IF ExpiresAtTruthy(expires_at)
                         THEN set_credential(credentials, "token_expires_at",
                                             expires_at)
                         ELSE credentials
  /\ ThreadStep(t, [cmd.th[t] EXCEPT !.pc = "store_credential"])
  /\ UNCHANGED threadFrame

\* authenticate(): set_credential of client_id and of client_secret
ThreadStoreCredential(t) ==
  /\ cmd.th[t].pc = "store_credential"
  /\ credentials' = set_credential(
                       set_credential(credentials, "client_id", cmd.th[t].pair[1]),
                       "client_secret", cmd.th[t].pair[2])
  /\ ThreadStep(t, [cmd.th[t] EXCEPT !.pc = "read"])
  /\ UNCHANGED threadFrame

\* `return config.get_access_token()`
ThreadRead(t) ==
  /\ cmd.th[t].pc = "read"
  /\ ThreadStep(t, [cmd.th[t] EXCEPT !.pc = "done",
                                      !.result = config_get_access_token(credentials)])
  /\ UNCHANGED credentials
  /\ UNCHANGED threadFrame

NextThreads ==
  \E t \in Threads :
    \/ ThreadCheck(t)
    \/ ThreadExpiry(t)
    \/ ThreadEvict(t)
    \/ ThreadResolve(t)
    \/ ThreadPost(t)
    \/ ThreadStoreToken(t)
    \/ ThreadStoreExpiry(t)
    \/ ThreadStoreCredential(t)
    \/ ThreadRead(t)

SpecThreads == InitThreads /\ [][NextThreads]_vars

\* ------------------------------------------- configuration functions
\* the environments of the resolution: each variable unset, empty or set
EnvSamples == {None, "", "idE"} \X {None, "", "secE"}

\* the stores in S, and those with one more key holding a value of V
WithKey(S, key, V) == S \cup { set_credential(c, key, v) : c \in S, v \in V }

\* credentials files: any subset of the four keys; a string may be empty
StoreSamples ==
  WithKey(WithKey(WithKey(WithKey({<< >>},
    "client_id", {"idS", ""}),
    "client_secret", {"secS", ""}),
    "access_token", Tokens \cup {""}),
    "token_expires_at", {StartTime})

\* the values of the top-level --account option
TopAccountArgs == {None, "acctT"}

\* BraleConfig._config as _load_config() gives it, with a default account
config_file(default) ==
  [default_account |-> default,
   default_output |-> "table",
   api_base_url |-> "https://api.brale.xyz",
   auth_base_url |-> "https://auth.brale.xyz"]

\* variant: the client_id is copied into the output
to_dict_leaky(cfg, c) ==
  [k \in DOMAIN cfg \cup {"authenticated", "client_id"} |->
     IF k = "authenticated" THEN Truthy(config_get_access_token(c))
     ELSE IF k = "client_id" THEN get_credential(c, "client_id")
     ELSE cfg[k]]

\* BraleConfig.to_dict: a copy of _config with 'authenticated' added
to_dict(cfg, c) ==
  [k \in DOMAIN cfg \cup {"authenticated"} |->
     IF k = "authenticated" THEN Truthy(config_get_access_token(c)) ELSE cfg[k]]

\* main(): the top-level options are stored in ctx.obj
main(account) == [account |-> account, output |-> "table"]

\* the account of an account-scoped command: ctx.obj is passed in and not read
command_account_id(ctx_obj, account, default) == account_or_default(account, default)

InitFunctions ==
  /\ credentials \in StoreSamples
  /\ environ \in EnvSamples
  /\ session_auth = NoToken
  /\ now = StartTime
  /\ last = Idle
  /\ supplied = NoArgs
  /\ issued = 0
  /\ addresses = << >>
  /\ default_account \in DefaultAccounts
  /\ uuid_count = 0
  /\ keys_sent = << >>
  /\ cmd = NoCmd

\* config.get_client_credentials()
ResolveCredentials ==
  /\ cmd = NoCmd
  /\ cmd' = [pc |-> "resolved", pair |-> get_client_credentials(credentials, environ)]
  /\ UNCHANGED <<authVars, addresses, default_account, uuid_count, keys_sent>>

\* `brale config show`: config.to_dict()
ToDict ==
  /\ cmd = NoCmd
  /\ cmd' = [pc |-> "to_dict",
             result |-> to_dict(config_file(default_account), credentials)]
  /\ UNCHANGED <<authVars, addresses, default_account, uuid_count, keys_sent>>

\* `brale [--account T] addresses list [--account A]` up to its API path
AccountCommand ==
  /\ cmd = NoCmd
  /\ \E top \in TopAccountArgs, account \in AccountArgs :
       LET ctx_obj == main(top)
           account_id == command_account_id(ctx_obj, account, default_account)
       IN cmd' = [pc |-> "account", ctx_obj |-> ctx_obj, account |-> account,
                  account_id |-> account_id,
                  aborted |-> ~Truthy(account_id),
                  path |-> <<account_id, "addresses">>]
  /\ UNCHANGED <<authVars, addresses, default_account, uuid_count, keys_sent>>

FunctionDone ==
  /\ cmd.pc \in {"resolved", "to_dict", "account"}
  /\ cmd' = NoCmd
  /\ UNCHANGED <<authVars, addresses, default_account, uuid_count, keys_sent>>

NextFunctions ==
  \/ ResolveCredentials
  \/ ToDict
  \/ AccountCommand
  \/ FunctionDone

SpecFunctions == InitFunctions /\ [][NextFunctions]_vars

\* ------------------------------------------------- the transfer body
\* the largest whole amount of the --amount option
MaxAmount == 11

\* --amount, a float: whole units and tenths
Amounts == [units : 0..MaxAmount, tenths : {0, 5}]
\* --from: click.Choice(['wire', 'ach'])
SourceTypes == {"wire", "ach"}
\* --to: a token name in either case
DestinationArgs == {"sbc", "SBC", "usdc"}

\* strings that are converted are sequences of characters
DigitChars == <<"0", "1", "2", "3", "4", "5", "6", "7", "8", "9">>

\* str() of a non-negative integer
RECURSIVE str_int(_)
str_int(n) ==
  IF n < 10 THEN <<DigitChars[n + 1]>>
  ELSE str_int(n \div 10) \o <<DigitChars[(n % 10) + 1]>>

\* `str(amount)` of a float: the shortest repr, always with a fraction
str_float(amount) == str_int(amount.units) \o <<".">> \o str_int(amount.tenths)

\* `destination.upper()`
upper(s) ==
  CASE s = "sbc" -> "SBC"
    [] s = "usdc" -> "USDC"
    [] OTHER -> s

\* variant: value_type and transfer_type of the destination change places
transfer_data_swapped(amount, source, destination, network, compatible_address) ==
  [amount |-> [value |-> str_float(amount), currency |-> "USD"],
   source |-> [value_type |-> "USD", transfer_type |-> source],
   destination |-> [address_id |-> compatible_address.id,
                    value_type |-> network,
                    transfer_type |-> upper(destination)]]

\* transfer_data of `transfers create`
transfer_data(amount, source, destination, network, compatible_address) ==
  [amount |-> [value |-> str_float(amount), currency |-> "USD"],
   source |-> [value_type |-> "USD", transfer_type |-> source],
   destination |-> [address_id |-> compatible_address.id,
                    value_type |-> upper(destination),
                    transfer_type |-> network]]

\* transfer_data of transfer_client.py: the literals of the script
transfer_client_data(base_address_id) ==
  [amount |-> [value |-> <<"1", "0">>, currency |-> "USD"],
   source |-> [value_type |-> "USD", transfer_type |-> "wire"],
   destination |-> [address_id |-> base_address_id,
                    value_type |-> "SBC",
                    transfer_type |-> "base"]]

\* what a body was built from
BodyInputs(amount, source, destination, network, address_id) ==
  [amount |-> amount, source |-> source, destination |-> destination,
   network |-> network, address_id |-> address_id]

InitBody ==
  /\ credentials = << >>
  /\ environ = <<None, None>>
  /\ session_auth = NoToken
  /\ now = StartTime
  /\ last = Idle
  /\ supplied = NoArgs
  /\ issued = 0
  /\ addresses = << >>
  /\ default_account = None
  /\ uuid_count = 0
  /\ keys_sent = << >>
  /\ cmd = NoCmd

\* `transfers create` from the selection to the request body
CliTransferData ==
  /\ cmd = NoCmd
  /\ \E amount \in Amounts, source \in SourceTypes,
        destination \in DestinationArgs, network \in Networks,
        id \in 1..MaxAddrs :
       LET compatible_address ==
             [id |-> id, status |-> "active", transfer_types |-> <<network>>]
       IN cmd' = [pc |-> "body", by |-> "cli",
                  inputs |-> BodyInputs(amount, source, destination, network, id),
                  body |-> transfer_data(amount, source, destination, network,
                                         compatible_address)]
  /\ UNCHANGED <<authVars, addresses, default_account, uuid_count, keys_sent>>

\* transfer_client.py from the selection to the request body
TransferClientData ==
  /\ cmd = NoCmd
  /\ \E base_address_id \in 1..MaxAddrs :
       cmd' = [pc |-> "body", by |-> "transfer_client",
               inputs |-> BodyInputs([units |-> 10, tenths |-> 0], "wire", "SBC",
                                     "base", base_address_id),
               body |-> transfer_client_data(base_address_id)]
  /\ UNCHANGED <<authVars, addresses, default_account, uuid_count, keys_sent>>

BodyDone ==
  /\ cmd.pc = "body"
  /\ cmd' = NoCmd
  /\ UNCHANGED <<authVars, addresses, default_account, uuid_count, keys_sent>>

NextBody ==
  \/ CliTransferData
  \/ TransferClientData
  \/ BodyDone

SpecBody == InitBody /\ [][NextBody]_vars

\* ------------------------------------------------------------ vocabulary
HasToken(c) == "access_token" \in DOMAIN c
HasExpiry(c) == "token_expires_at" \in DOMAIN c
\* a Token is cached and t is strictly before its expires_at
ValidToken(c, t) == HasToken(c) /\ HasExpiry(c) /\ t < c["token_expires_at"]
\* a complete Credential resolves from environment or store
CredentialAvailable(c, env) ==
  LET pair == get_client_credentials(c, env)
  IN Truthy(pair[1]) /\ Truthy(pair[2])
\* the store keeps client_id and client_secret as they were before the call
CredentialKept ==
  \A k \in {"client_id", "client_secret"} :
    /\ (k \in DOMAIN credentials) = (k \in DOMAIN last.pre)
    /\ k \in DOMAIN credentials => credentials[k] = last.pre[k]
IsResponse(req, status) ==
  req.outcome.kind = "response" /\ req.outcome.status = status
\* the call was request() and its first resource request was answered 401
First401 ==
  /\ last.op = "request"
  /\ Len(last.reqs) >= 1
  /\ IsResponse(last.reqs[1], 401)
\* some POST to the token endpoint of the call was not answered with a token
SomePostFailed == \E i \in 1..Len(last.posts) : last.posts[i].outcome.kind # "ok"

\* ------------------------------------------------------------------ C1
\* C1: a request() whose first response is 401, and whose re-authentication is
\* accepted by the token endpoint, makes exactly one POST to the token endpoint
\* and exactly one resend, whatever expires_in the endpoint returned; a second
\* 401 is returned and there is no third resource request.
C1_ExactlyOneReauthOneResend ==
  (First401 /\ Len(last.posts) >= 1 /\ last.posts[1].outcome.kind = "ok") =>
    /\ Len(last.posts) = 1
    /\ Len(last.reqs) = 2
    /\ IsResponse(last.reqs[2], 401) => last.resp = [n |-> 2, status |-> 401]

\* ------------------------------------------------------------------ C2
\* C2: request() raises the not-authenticated error only when no token can be
\* had: with a Credential available it re-authenticates instead of raising.
C2_NotAuthenticatedOnlyWithoutCredential ==
  (last.op = "request" /\ last.exc = "NotAuthenticated") =>
    ~CredentialAvailable(last.pre, environ)

\* ------------------------------------------------------------------ C3
\* C3: after a first 401, request() raises nothing; when the re-authentication
\* fails (no credential, or a POST to the token endpoint not answered with a
\* token) it returns the first response and sends nothing more; when the
\* resend is answered 401 it returns that second response.
C3_RefreshFailureReturnsResponse ==
  First401 =>
    /\ last.exc = "none"
    /\ (~CredentialAvailable(last.pre, environ) \/ SomePostFailed) =>
         /\ last.resp = [n |-> 1, status |-> 401]
         /\ Len(last.reqs) = 1
    /\ (Len(last.reqs) = 2 /\ IsResponse(last.reqs[2], 401)) =>
         last.resp = [n |-> 2, status |-> 401]

\* a first 401, a token endpoint answering non-200, the first response returned
C3_Witness ==
  /\ First401
  /\ Len(last.posts) = 1
  /\ last.posts[1].outcome.kind = "non200"
  /\ last.resp = [n |-> 1, status |-> 401]
  /\ last.exc = "none"

\* ------------------------------------------------------------------ C4
\* C4: a transport exception of any resource request of request(), the first
\* or the resend, reaches the caller.
C4_TransportExceptionPropagates ==
  (/\ last.op = "request"
   /\ \E i \in 1..Len(last.reqs) : last.reqs[i].outcome.kind = "exception") =>
    last.exc = "RequestException"

C6_AuthenticatedIffUnexpired ==
  is_authenticated(credentials, now).val <=> ValidToken(credentials, now)

\* ------------------------------------------------------------------ C7
\* C7: is_authenticated() called at now >= expires_at of the cached Token
\* returns false, leaves neither access_token nor token_expires_at in the
\* store, and keeps client_id and client_secret.
C7_ExpiredTokenEvicted ==
  (/\ last.op = "is_authenticated"
   /\ HasToken(last.pre)
   /\ HasExpiry(last.pre)
   /\ last.time >= last.pre["token_expires_at"]) =>
    /\ ~last.ok
    /\ ~HasToken(credentials)
    /\ ~HasExpiry(credentials)
    /\ CredentialKept

\* the call at now = expires_at exactly
C7_Witness ==
  /\ last.op = "is_authenticated"
  /\ HasToken(last.pre)
  /\ HasExpiry(last.pre)
  /\ last.time = last.pre["token_expires_at"]
  /\ "client_id" \in DOMAIN credentials

\* ------------------------------------------------------------------ C8
\* C8: with a Token cached and now < expires_at, get_access_token() returns the
\* cached token, makes no POST to the token endpoint and leaves the store as
\* it was; so does every further call in that state.
C8_CacheHitNoNetwork ==
  /\ ValidToken(credentials, now) =>
       \A g \in get_access_token(credentials, environ, now) :
         /\ g.token = credentials["access_token"]
         /\ g.exc = "none"
         /\ g.posts = << >>
         /\ g.creds = credentials
  /\ (last.op = "get_access_token" /\ ValidToken(last.pre, last.time)) =>
       /\ last.token = last.pre["access_token"]
       /\ last.posts = << >>
       /\ credentials = last.pre

\* a cache hit one tick before the expiry
C8_Witness ==
  /\ last.op = "get_access_token"
  /\ ValidToken(last.pre, last.time)
  /\ last.time + 1 = last.pre["token_expires_at"]
  /\ last.token = last.pre["access_token"]

C10_AuthenticateStoresTokenAndExpiry ==
  (last.op = "authenticate" /\ last.ok) =>
    LET o == last.posts[1].outcome
        expires_at == last.time + ExpiresInOf(o)
    IN /\ HasToken(credentials)
       /\ credentials["access_token"] = o.access_token
       /\ HasExpiry(credentials)
       /\ credentials["token_expires_at"] = expires_at
       /\ \A t \in (expires_at - 2)..(expires_at + 2) :
            is_authenticated(credentials, t).val <=> (t < expires_at)

\* ------------------------------------------------------------------ C11
\* the exceptions of authenticate() that are RuntimeError in auth.py
RuntimeErrors == {"AuthFailed", "AuthNetworkError"}
\* the call was authenticate() and it reached the token endpoint
AuthenticatePosted == last.op = "authenticate" /\ Len(last.posts) >= 1

\* C11: an authenticate() that reaches the token endpoint and gets a non-200
\* response or a network failure raises RuntimeError; it never returns True.
C11_EndpointFailureRaises ==
  (AuthenticatePosted /\ last.posts[1].outcome.kind \in {"non200", "neterr"}) =>
    /\ ~last.ok
    /\ last.exc \in RuntimeErrors
    /\ Len(last.posts) = 1
    /\ credentials = last.pre

C11_Witness ==
  /\ AuthenticatePosted
  /\ last.posts[1].outcome.kind = "non200"
  /\ last.exc = "AuthFailed"
  /\ "access_token" \in DOMAIN last.pre

\* ------------------------------------------------------------------ C12
\* the Credential the store holds, None where a field is absent
StoredCredential(c) == <<get_credential(c, "client_id"), get_credential(c, "client_secret")>>
\* every POST to the token endpoint in posts sent the Credential pair
AllPostsSend(posts, pair) ==
  \A i \in 1..Len(posts) :
    posts[i].client_id = pair[1] /\ posts[i].client_secret = pair[2]
\* logout() has just run on a store that held a Credential
LoggedOutWithCredential ==
  /\ last.op = "logout"
  /\ Truthy(StoredCredential(last.pre)[1])
  /\ Truthy(StoredCredential(last.pre)[2])

\* C12: logout() removes access_token and token_expires_at and leaves
\* client_id and client_secret as they were; a get_access_token() made right
\* after it posts the retained Credential to the token endpoint and, when the
\* endpoint answers with a token, returns that token.
C12_LogoutThenSilentReauth ==
  LoggedOutWithCredential =>
    /\ ~HasToken(credentials)
    /\ ~HasExpiry(credentials)
    /\ CredentialKept
    /\ \A g \in get_access_token(credentials, environ, now) :
         /\ Len(g.posts) = 1
         /\ AllPostsSend(g.posts, StoredCredential(last.pre))
         /\ g.posts[1].outcome.kind = "ok" =>
              g.token = g.posts[1].outcome.access_token

\* the part of C12 about logout() alone
LogoutFrame ==
  last.op = "logout" =>
    ~HasToken(credentials) /\ ~HasExpiry(credentials) /\ CredentialKept

\* ------------------------------------------------------------------ C13
\* C13: once authenticate(C) has succeeded with an explicitly supplied
\* Credential C, every POST to the token endpoint made by a later
\* get_access_token() or request() sends C, whatever the environment holds.
C13_ReauthSendsSuppliedCredential ==
  (last.op \in {"get_access_token", "request"} /\ supplied # NoArgs) =>
    AllPostsSend(last.posts, supplied)

\* ------------------------------------------------------------------ C20
\* the bearer was issued by an authenticate() of the call in progress
ObtainedInCall(bearer) ==
  \E i \in 1..Len(last.posts) :
    /\ last.posts[i].outcome.kind = "ok"
    /\ last.posts[i].outcome.access_token = bearer
\* the bearer is the token cached before the call and the validity check of
\* the call accepted it
FoundValidByCheck(bearer) ==
  /\ HasToken(last.pre)
  /\ bearer = last.pre["access_token"]
  /\ is_authenticated(last.pre, last.time).val

\* the second sentence of C20: every bearer was accepted by the validity check
\* of the call or obtained by an authenticate() of the call
BearerCheckedOrRefreshed ==
  last.op = "request" =>
    \A i \in 1..Len(last.reqs) :
      FoundValidByCheck(last.reqs[i].bearer) \/ ObtainedInCall(last.reqs[i].bearer)

\* C20: no resource request of request() carries a token at a time >= its
\* expires_at (now + expires_in at issue) unless the call refreshed first:
\* every bearer is the cached token, accepted by the validity check and
\* strictly before its expires_at, or was obtained by an authenticate() of the
\* call.
C20_NoExpiredBearerWithoutRefresh ==
  last.op = "request" =>
    \A i \in 1..Len(last.reqs) :
      \/ FoundValidByCheck(last.reqs[i].bearer) /\ last.time < last.pre_issued
      \/ ObtainedInCall(last.reqs[i].bearer)

\* ------------------------------------------------------------------ C15
\* the create command has run its selection loop
CliSelected == cmd.pc = "selected" /\ cmd.op = "cli"
\* the positions of the active addresses that list network n
Supporting(n) ==
  { i \in 1..Len(addresses) :
      addresses[i].status = "active" /\ n \in Range(addresses[i].transfer_types) }
\* the positions of the active addresses with a non-empty network list
ActiveNonEmpty ==
  { i \in 1..Len(addresses) :
      addresses[i].status = "active" /\ addresses[i].transfer_types # << >> }
\* the lowest position in a non-empty set of positions
Lowest(S) == CHOOSE i \in S : \A j \in S : i <= j

\* C15: with a network n requested and some active address supporting n, the
\* loop selects the lowest-index such address and the effective network is n.
C15_RequestedNetworkFirstMatch ==
  (CliSelected /\ Truthy(cmd.requested) /\ Supporting(cmd.requested) # {}) =>
    /\ cmd.address = addresses[Lowest(Supporting(cmd.requested))]
    /\ cmd.network = cmd.requested

\* an earlier active address lacks the network, an earlier supporting one is
\* not active, and a later one also qualifies
C15_Witness ==
  /\ CliSelected
  /\ cmd.requested = "solana"
  /\ Len(addresses) = 3
  /\ addresses[1].status = "active" /\ addresses[1].transfer_types = <<"base">>
  /\ addresses[2].status = "active" /\ addresses[2].transfer_types = <<"base", "solana">>
  /\ addresses[3].status = "active" /\ addresses[3].transfer_types = <<"solana">>
  /\ cmd.address.id = 2

\* ------------------------------------------------------------------ C16
\* C16: with no network requested, the loop selects the lowest-index active
\* address whose network list is non-empty and the effective network is the
\* first element of that list; an active address with an empty list is skipped.
C16_AutoSelectFirstNonEmpty ==
  (CliSelected /\ ~Truthy(cmd.requested) /\ ActiveNonEmpty # {}) =>
    /\ cmd.address = addresses[Lowest(ActiveNonEmpty)]
    /\ cmd.network = addresses[Lowest(ActiveNonEmpty)].transfer_types[1]

\* an active address with an empty list comes first and is skipped
C16_Witness ==
  /\ CliSelected
  /\ cmd.requested = None
  /\ Len(addresses) = 3
  /\ addresses[1].status = "active" /\ addresses[1].transfer_types = << >>
  /\ addresses[2].status = "active" /\ addresses[2].transfer_types = <<"solana", "base">>
  /\ addresses[3].status = "active" /\ addresses[3].transfer_types = <<"base">>
  /\ cmd.address.id = 2
  /\ cmd.network = "solana"

\* ------------------------------------------------------------------ C17
\* no address qualifies for what was requested
NoneQualifies ==
  IF Truthy(cmd.requested) THEN Supporting(cmd.requested) = {}
  ELSE ActiveNonEmpty = {}

\* C17: when no address qualifies the command selects none and fails, and the
\* networks it reports are the union of the networks of the active addresses,
\* with none taken from an address that is not active.
C17_NoCompatibleReportsActiveNetworks ==
  (CliSelected /\ NoneQualifies) =>
    /\ cmd.address = NoAddress
    /\ cmd.available =
         { n \in Networks : \E i \in 1..Len(addresses) :
             addresses[i].status = "active" /\ n \in Range(addresses[i].transfer_types) }

\* an inactive address supports the requested network, an active one another
C17_Witness ==
  /\ CliSelected
  /\ cmd.requested = "solana"
  /\ cmd.address = NoAddress
  /\ Len(addresses) = 2
  /\ addresses[1].status = "pending" /\ addresses[1].transfer_types = <<"solana">>
  /\ addresses[2].status = "active" /\ addresses[2].transfer_types = <<"base">>
  /\ cmd.available = {"base"}

\* ------------------------------------------------------------------ C19
\* C19: transfer_client.py and automation_client.py use the first active
\* address that supports 'base'.
C19_ScriptsUseFirstBaseAddress ==
  (/\ cmd.pc = "selected"
   /\ cmd.op \in {"transfer_client", "automation_client"}
   /\ Supporting("base") # {}) =>
    cmd.address = addresses[Lowest(Supporting("base"))].id

\* the part of C19 about automation_client.py
AutomationClientUsesFirst ==
  (cmd.pc = "selected" /\ cmd.op = "automation_client" /\ Supporting("base") # {}) =>
    cmd.address = addresses[Lowest(Supporting("base"))].id

\* ------------------------------------------------------------------ C14
\* the create command has sent its POST at least once
Posted == cmd.pc \in {"done", "aborted"} /\ cmd.sends # << >>

\* C14: every POST of a create command carries the Idempotency-Key drawn once
\* for the invocation; the resend after a 401 carries the same key and the same
\* body as the first attempt; no two invocations share a key.
C14_IdempotencyKeyOncePerInvocation ==
  /\ Posted =>
       /\ cmd.key # NoKey
       /\ cmd.key = keys_sent[Len(keys_sent)]
       /\ \A i \in 1..Len(cmd.sends) :
            /\ cmd.sends[i].method = "POST"
            /\ cmd.sends[i].idempotency_key = cmd.key
            /\ cmd.sends[i].json = cmd.sends[1].json
            /\ cmd.sends[i].endpoint = cmd.sends[1].endpoint
  /\ \A i, j \in 1..Len(keys_sent) : i # j => keys_sent[i] # keys_sent[j]

\* the second invocation resent its POST after a 401
C14_Witness ==
  /\ Posted
  /\ Len(keys_sent) = 2
  /\ Len(cmd.sends) = 2
  /\ IsResponse(cmd.sends[1], 401)
  /\ cmd.sends[1].bearer # cmd.sends[2].bearer

\* ------------------------------------------------------------------ C18
\* a create command is running or has just ended
InCommand == cmd.pc \in {"ready", "done", "aborted"}
\* the address and the network the selection rules of C15 and C16 give
ExpectedAddress ==
  IF Truthy(cmd.requested) THEN addresses[Lowest(Supporting(cmd.requested))]
  ELSE addresses[Lowest(ActiveNonEmpty)]
ExpectedNetwork ==
  IF Truthy(cmd.requested) THEN cmd.requested
  ELSE ExpectedAddress.transfer_types[1]

\* C18: a create command sends its POST only after the address list was
\* fetched with status 200 and a compatible address selected; with the account
\* missing, the fetch failed or no address qualifying it aborts with no POST
\* sent; the POST of a successful run names the selected address and the
\* effective network.
C18_PostOnlyAfterFetchAndSelection ==
  InCommand =>
    /\ cmd.sends # << >> =>
         /\ Truthy(cmd.account_id)
         /\ cmd.fetched.gets >= 1
         /\ cmd.fetched.status = 200
         /\ ~NoneQualifies
         /\ cmd.address = ExpectedAddress
    /\ (~Truthy(cmd.account_id) \/ cmd.fetched.status # 200 \/ NoneQualifies) =>
         cmd.pc = "aborted" /\ cmd.sends = << >>
    /\ cmd.pc = "done" =>
         \A i \in 1..Len(cmd.sends) :
           /\ cmd.sends[i].json.destination.address_id = ExpectedAddress.id
           /\ cmd.sends[i].json.destination.transfer_type = ExpectedNetwork
           /\ cmd.sends[i].endpoint = <<cmd.account_id, cmd.kind>>

\* a successful run whose address fetch needed the 401 retry and whose
\* selection skipped three addresses
C18_Witness ==
  /\ cmd.pc = "done"
  /\ cmd.kind = "automations"
  /\ cmd.requested = "solana"
  /\ cmd.fetched.gets = 2
  /\ cmd.sends[1].json.destination.address_id = 4
  /\ cmd.status = 200

\* ------------------------------------------------------------------ C27
\* the failures of authenticate() that C27 names: non-200 answer, network
\* failure, missing credential
NamedFailures == {"AuthFailed", "AuthNetworkError", "ValueError"}

\* C27: an authenticate() that fails with a non-200 answer, a network failure
\* or a missing credential leaves access_token, token_expires_at, client_id
\* and client_secret as they were before the call.
C27_FailedAuthenticateKeepsStore ==
  (last.op = "authenticate" /\ last.exc \in NamedFailures) =>
    /\ credentials = last.pre
    /\ ~last.ok

\* an explicitly supplied Credential is rejected while the store holds a
\* token and another Credential
C27_Witness ==
  /\ last.op = "authenticate"
  /\ last.exc = "AuthFailed"
  /\ last.args = <<"idA", "secA">>
  /\ HasToken(last.pre)
  /\ HasExpiry(last.pre)
  /\ last.pre["client_id"] = "idE"

\* ------------------------------------------------------------------ C28
\* a value that is no credential field: None or the empty string
Absent(s) == s \in {None, ""}
\* field i of the Credential is absent from the parameters, the environment
\* and the store as they were before the call
FieldUnresolvable(i) ==
  /\ Absent(last.args[i])
  /\ Absent(environ[i])
  /\ Absent(StoredCredential(last.pre)[i])

\* C28: an authenticate() for which client_id or client_secret is absent from
\* parameters, environment and store raises ValueError with no POST sent to
\* the token endpoint.
C28_UnresolvableRaisesValueError ==
  (last.op = "authenticate" /\ (FieldUnresolvable(1) \/ FieldUnresolvable(2))) =>
    /\ last.exc = "ValueError"
    /\ last.posts = << >>
    /\ ~last.ok

\* client_id is supplied, client_secret is nowhere
C28_Witness ==
  /\ last.op = "authenticate"
  /\ last.args = <<"idA", None>>
  /\ FieldUnresolvable(2)
  /\ ~FieldUnresolvable(1)
  /\ last.exc = "ValueError"

\* ------------------------------------------------------------------ C29
\* authenticate() was called with client_id alone
OnlyClientIdSupplied ==
  /\ last.op = "authenticate"
  /\ ~Absent(last.args[1])
  /\ Absent(last.args[2])

\* C29: an authenticate() called with client_id alone sends the supplied
\* client_id with the client_secret of the environment or the store; it posts
\* whenever that client_secret exists, and the configured client_id never
\* replaces the supplied one.
C29_SuppliedFieldIsUsed ==
  OnlyClientIdSupplied =>
    LET configured == get_client_credentials(last.pre, environ)
    IN /\ ~Absent(configured[2]) => Len(last.posts) >= 1
       /\ AllPostsSend(last.posts, <<last.args[1], configured[2]>>)

\* ------------------------------------------------------------------ C21
\* request() sent at least one resource request
RequestSent == last.op = "request" /\ Len(last.reqs) >= 1

CredentialKeys == <<"client_id", "client_secret">>
\* field i as the credentials file has it, None when the key is missing
Persisted(i) ==
  IF CredentialKeys[i] \in DOMAIN credentials
    THEN credentials[CredentialKeys[i]] ELSE None

\* C23: each field of the resolved Credential is the value of its environment
\* variable when that is set and non-empty and the value of the credentials
\* file otherwise, field by field; a field that neither source has is absent.
C23_ResolutionPerField ==
  cmd.pc = "resolved" =>
    \A i \in {1, 2} :
      /\ cmd.pair[i] = IF ~Absent(environ[i]) THEN environ[i] ELSE Persisted(i)
      /\ (Absent(environ[i]) /\ Absent(Persisted(i))) => Absent(cmd.pair[i])

\* client_id comes from the file, client_secret from the environment
C23_Witness ==
  /\ cmd.pc = "resolved"
  /\ environ = <<"", "secE">>
  /\ Persisted(1) = "idS"
  /\ Persisted(2) = "secS"
  /\ cmd.pair = <<"idS", "secE">>

\* ------------------------------------------------------------------ C25
\* C25: with the top-level --account given and no command-level --account,
\* an account-scoped command uses the top-level account id in its API path,
\* not the default account.
C25_TopLevelAccountOverridesDefault ==
  (cmd.pc = "account" /\ Truthy(cmd.ctx_obj.account) /\ ~Truthy(cmd.account)) =>
    /\ ~cmd.aborted
    /\ cmd.account_id = cmd.ctx_obj.account
    /\ cmd.path[1] = cmd.ctx_obj.account

\* ------------------------------------------------------------------ C26
\* an access token is present in the store: get_access_token() is truthy
TokenPresent(c) == ~Absent(config_get_access_token(c))

\* C26: to_dict() gives the same mapping for any two stores that agree on
\* whether an access token is present; the mapping has the keys of the
\* configuration file and 'authenticated', which says whether one is.
C26_ToDictHidesCredentials ==
  cmd.pc = "to_dict" =>
    /\ \A other \in StoreSamples :
         TokenPresent(other) = TokenPresent(credentials) =>
           to_dict(config_file(default_account), other) = cmd.result
    /\ DOMAIN cmd.result =
         DOMAIN config_file(default_account) \cup {"authenticated"}
    /\ cmd.result.authenticated = TokenPresent(credentials)

\* the store holds a Credential, a token and its expiry
C26_Witness ==
  /\ cmd.pc = "to_dict"
  /\ DOMAIN credentials =
       {"client_id", "client_secret", "access_token", "token_expires_at"}
  /\ credentials["access_token"] = "t1"
  /\ cmd.result.authenticated

\* ------------------------------------------------------------------ C24
\* the value of a digit character
DigitValue(ch) == CHOOSE d \in 0..9 : DigitChars[d + 1] = ch

\* the number a sequence of digits denotes
RECURSIVE parse_int(_)
parse_int(chars) ==
  IF chars = << >> THEN 0
  ELSE 10 * parse_int(SubSeq(chars, 1, Len(chars) - 1))
         + DigitValue(chars[Len(chars)])

\* the positions of the decimal point
PointAt(chars) == { i \in 1..Len(chars) : chars[i] = "." }

\* the amount a decimal string denotes: whole units and tenths
parse_float(chars) ==
  IF PointAt(chars) = {}
    THEN [units |-> parse_int(chars), tenths |-> 0]
    ELSE LET p == CHOOSE i \in PointAt(chars) : TRUE
             fraction == SubSeq(chars, p + 1, Len(chars))
         IN [units |-> parse_int(SubSeq(chars, 1, p - 1)),
             tenths |-> IF fraction = << >> THEN 0
                        ELSE DigitValue(fraction[1])]

\* the digits after the first of a fraction are zeros
FractionInTenths(chars) ==
  \A p \in PointAt(chars) : \A i \in (p + 2)..Len(chars) : chars[i] = "0"

\* token names are the same up to case
TokenNames == { <<"sbc", "SBC">>, <<"usdc", "USDC">> }
SameToken(a, b) == a = b \/ \E t \in TokenNames : {a, b} = {t[1], t[2]}

\* the body has the three objects with their fields and no other
ExactShape(body) ==
  /\ DOMAIN body = {"amount", "source", "destination"}
  /\ DOMAIN body.amount = {"value", "currency"}
  /\ DOMAIN body.source = {"value_type", "transfer_type"}
  /\ DOMAIN body.destination = {"address_id", "value_type", "transfer_type"}

\* C24: the transfer body built from an amount, a source, a destination
\* token, a network and an address id (amount 10, wire, SBC, base, X among
\* them) has exactly the shape {amount:{value,currency}, source:{value_type,
\* transfer_type}, destination:{address_id,value_type,transfer_type}}, and
\* the fields read back from it are the ones that were put in.
C24_TransferBodyRoundTrip ==
  cmd.pc = "body" =>
    /\ ExactShape(cmd.body)
    /\ Cardinality(PointAt(cmd.body.amount.value)) <= 1
    /\ FractionInTenths(cmd.body.amount.value)
    /\ parse_float(cmd.body.amount.value) = cmd.inputs.amount
    /\ cmd.body.amount.currency = "USD"
    /\ cmd.body.source.value_type = "USD"
    /\ cmd.body.source.transfer_type = cmd.inputs.source
    /\ SameToken(cmd.body.destination.value_type, cmd.inputs.destination)
    /\ cmd.body.destination.value_type \in { t[2] : t \in TokenNames }
    /\ cmd.body.destination.transfer_type = cmd.inputs.network
    /\ cmd.body.destination.address_id = cmd.inputs.address_id

\* the claim's inputs through `transfers create`: the amount goes out as 10.0
C24_Witness ==
  /\ cmd.pc = "body"
  /\ cmd.by = "cli"
  /\ cmd.inputs = BodyInputs([units |-> 10, tenths |-> 0], "wire", "SBC", "base", 1)
  /\ cmd.body.amount.value = <<"1", "0", ".", "0">>
  /\ cmd.body.destination.value_type = "SBC"

\* ------------------------------------------------------------------ C30
\* C30: in every reachable state, saves that fail part-way included, an
\* access_token is in the cache exactly when a token_expires_at is, and the
\* expiry is the one computed by the exchange that produced the token.
C30_TokenAndExpiryTogether ==
  /\ HasToken(credentials) <=> HasExpiry(credentials)
  /\ (HasToken(credentials) /\ HasExpiry(credentials)) =>
       credentials["token_expires_at"] = issued

\* ------------------------------------------------------------------ C22
\* thread t found the cache invalid and resolved a complete Credential
FoundInvalid(t) ==
  /\ cmd.th[t].invalid
  /\ cmd.th[t].pc \notin {"check", "expiry", "evict", "resolve"}
  /\ Truthy(cmd.th[t].pair[1])
  /\ Truthy(cmd.th[t].pair[2])

\* C22: with no lock around get_access_token(), every thread that found the
\* cached token expired performs the OAuth2 exchange itself, whatever the
\* other thread has done to the cache meanwhile; two threads that call it
\* on the same expired token can therefore both perform the exchange.
C22_EveryThreadThatFoundExpiredRefreshes ==
  cmd.pc = "threads" =>
    \A t \in Threads :
      FoundInvalid(t) => (cmd.th[t].posted \/ cmd.th[t].pc = "post")

\* both threads read the same expired expiry and both were issued a token
C22_Witness ==
  /\ cmd.pc = "threads"
  /\ \A t \in Threads :
       /\ cmd.th[t].pc = "done"
       /\ cmd.th[t].seen = StartTime
       /\ cmd.th[t].posted
       /\ cmd.th[t].outcome.kind = "ok"
  /\ cmd.th["A"].outcome.access_token # cmd.th["B"].outcome.access_token

=============================================================================
